---- MODULE Spec2Model ----
(***************************************************************************)
(* Model of the Binance futures trading bot: the validators of utils.py,   *)
(* the order dispatcher OrderExecutor of orders.py and the command loop of *)
(* bot.py.  The remote exchange and the user are the environment: every    *)
(* remote call has a nondeterministic outcome, every prompt a              *)
(* nondeterministic answer.                                                *)
(***************************************************************************)
EXTENDS Integers, Sequences, FiniteSets, TLC

VARIABLES
    pc,       \* where control is: "idle", "ticker", "confirm", "wait", "sleep", "done", "exited"
    caller,   \* who invoked the dispatcher: "api" (direct call) or "cli" (command loop)
    cmd,      \* the command run_cli is handling ("none" for a direct call)
    op,       \* the dispatcher operation running or last run ("none" if none)
    args,     \* the arguments of the command / operation
    i,        \* loop index of place_twap_order; leg index of place_oco_order
    orders,   \* place_twap_order's orders list; place_oco_order's limit_order
    log,      \* what the run did so far: remote calls, their returns, sleeps, messages
    ret,      \* value returned by the dispatcher operation
    raised,   \* exception that left the dispatcher operation ("none" if none)
    reprompts \* how often get_user_confirmation asked again

vars == <<pc, caller, cmd, op, args, i, orders, log, ret, raised, reprompts>>

----------------------------------------------------------------------------
(* Bounds of the model *)

MaxIntervals == 5
MaxReprompts == 1
MaxSymbolLen == 7

----------------------------------------------------------------------------
(* Python values.  A float is a rational n/d (d > 0); nan is float('nan'); *)
(* text is a string float() cannot parse; none is None.                    *)

Num(n) == [k |-> "float", n |-> n, d |-> 1]
NaN == [k |-> "nan", n |-> 0, d |-> 1]
Text == [k |-> "text", n |-> 0, d |-> 1]
NoVal == [k |-> "none", n |-> 0, d |-> 1]

\* x <= 0 as Python evaluates it on floats: every comparison with nan is False
LeqZero(x) == x.k = "float" /\ x.n <= 0

\* x / m for a float x and a nonzero int m (nan / m is nan)
Div(x, m) ==
    IF x.k # "float" THEN x
    ELSE IF m > 0 THEN [k |-> "float", n |-> x.n, d |-> x.d * m]
    ELSE [k |-> "float", n |-> 0 - x.n, d |-> x.d * (0 - m)]

\* equality of two numbers
NumEq(a, b) == a.k = "float" /\ b.k = "float" /\ a.n * b.d = b.n * a.d

\* what the specification calls a positive number
IsPositiveNumber(x) == x.k = "float" /\ x.n > 0

\* float(x): the exception raised ("none" if none) and the value
Float(x) ==
    CASE x.k = "text" -> [exc |-> "ValueError", v |-> x]
      [] x.k = "none" -> [exc |-> "TypeError", v |-> x]
      [] OTHER -> [exc |-> "none", v |-> x]

\* validate_quantity: ok is FALSE when ValueError is raised
validate_quantity(quantity) ==
    LET f == Float(quantity) IN
    IF f.exc # "none" THEN [ok |-> FALSE, v |-> quantity]
    ELSE IF LeqZero(f.v) THEN [ok |-> FALSE, v |-> quantity]
    ELSE [ok |-> TRUE, v |-> f.v]

\* validate_price
validate_price(price) ==
    LET f == Float(price) IN
    IF f.exc # "none" THEN [ok |-> FALSE, v |-> price]
    ELSE IF LeqZero(f.v) THEN [ok |-> FALSE, v |-> price]
    ELSE [ok |-> TRUE, v |-> f.v]

\* str.upper() on the side strings the model uses
UpperStr(s) ==
    CASE s = "buy" -> "BUY"
      [] s = "sell" -> "SELL"
      [] s = "hold" -> "HOLD"
      [] OTHER -> s

----------------------------------------------------------------------------
(* Symbols are sequences of characters *)

UpperChar(c) ==
    CASE c = "b" -> "B" [] c = "t" -> "T" [] c = "c" -> "C"
      [] c = "u" -> "U" [] c = "s" -> "S" [] c = "d" -> "D"
      [] OTHER -> c

Upper(s) == [j \in 1..Len(s) |-> UpperChar(s[j])]

RECURSIVE LStrip(_)
LStrip(s) == IF s # <<>> /\ Head(s) = " " THEN LStrip(Tail(s)) ELSE s

RECURSIVE RStrip(_)
RStrip(s) ==
    IF s # <<>> /\ s[Len(s)] = " " THEN RStrip(SubSeq(s, 1, Len(s) - 1)) ELSE s

Strip(s) == RStrip(LStrip(s))

MinSymbolLen == 6

\* validate_symbol: ok is FALSE when ValueError is raised
validate_symbol_NoStrip(symbol) ==
    IF symbol = <<>> THEN [ok |-> FALSE, v |-> symbol]
    ELSE LET s == Upper(symbol) IN
         IF Len(s) < MinSymbolLen THEN [ok |-> FALSE, v |-> symbol]
         ELSE [ok |-> TRUE, v |-> s]

validate_symbol(symbol) ==
    IF symbol = <<>> THEN [ok |-> FALSE, v |-> symbol]
    ELSE LET s == Strip(Upper(symbol)) IN
         IF Len(s) < MinSymbolLen THEN [ok |-> FALSE, v |-> symbol]
         ELSE [ok |-> TRUE, v |-> s]

----------------------------------------------------------------------------
(* Inputs *)

BTCUSDT == <<"B", "T", "C", "U", "S", "D", "T">>
btcusdt == <<"b", "t", "c", "u", "s", "d", "t">>
BTC == <<"B", "T", "C">>
PaddedShort == <<" ", "b", "t", "c", " ", " ", " ">>

ApiSymbols == {BTCUSDT, BTC}
CliSymbols == {BTCUSDT, btcusdt, BTC, PaddedShort, <<>>}
ApiSides == {"BUY", "sell"}
CliSides == {"BUY", "sell", "hold"}
Quantities == {Num(-1), Num(0), Num(1), Num(3), NaN, Text, NoVal}
Prices == {Num(-2), Num(0), Num(5), NaN, Text}
Intervals == (-1)..MaxIntervals
Durations == {-1, 0, 7, 300}
OrderIds == {42}

\* what input() can deliver: a string, never None
CliQuantities == Quantities \ {NoVal}

CreateOutcomes == {"ok", "ok_postfail", "api_error", "error"}
QueryOutcomes == {"ok", "ok_postfail", "api_error", "error"}
CancelOutcomes == {"ok", "api_error", "error"}
TickerOutcomes == {"ok", "api_error", "error"}
AccountOutcomes == {"ok", "ok_postfail", "api_error", "error"}
Answers == {"yes", "no", "other"}

NoArgs == [symbol |-> <<>>, side |-> "", quantity |-> NoVal, price |-> NoVal,
           stop_price |-> NoVal, stop_limit_price |-> NoVal,
           intervals |-> 0, duration |-> 0, order_id |-> 0]

----------------------------------------------------------------------------
(* Values returned by the dispatcher *)

None == [t |-> "None"]
Pending == [t |-> "pending"]

\* Python truthiness of a returned value
Truthy(v) == v.t # "None"

\* the keyword arguments of a futures_create_order call
CreateOrderReq(type, symbol, side, quantity, price, stopPrice, tif) ==
    [type |-> type, symbol |-> symbol, side |-> side, quantity |-> quantity,
     price |-> price, stopPrice |-> stopPrice, timeInForce |-> tif]

NoReq == CreateOrderReq("", <<>>, "", NoVal, NoVal, NoVal, "")

\* the order the remote answers with
OrderResponse(req, id) ==
    [t |-> "order", orderId |-> id, symbol |-> req.symbol, side |-> req.side,
     type |-> req.type, origQty |-> req.quantity, price |-> req.price,
     stopPrice |-> req.stopPrice, status |-> "NEW"]

\* log entries
CallEv(api, req) == [ev |-> "call", api |-> api, req |-> req]
ReturnEv(opname, outcome, result) ==
    [ev |-> "return", op |-> opname, outcome |-> outcome, result |-> result]
SleepEv(secs) == [ev |-> "sleep", secs |-> secs]
DivEv(where, by) == [ev |-> "div", where |-> where, by |-> by]
AnswerEv(answer) == [ev |-> "answer", answer |-> answer]
InterruptEv(at) == [ev |-> "interrupt", at |-> at]
MsgEv(level, msg, a, b) == [ev |-> "msg", level |-> level, msg |-> msg, a |-> a, b |-> b]

IsCall(e, api) == e.ev = "call" /\ e.api = api
CallsOf(l, api) == {j \in 1..Len(l) : IsCall(l[j], api)}
NumCalls(l, api) == Cardinality(CallsOf(l, api))
RemoteCalls(l) == {j \in 1..Len(l) : l[j].ev = "call"}
Sleeps(l) == {j \in 1..Len(l) : l[j].ev = "sleep"}
Returns(l) == {j \in 1..Len(l) : l[j].ev = "return"}
Divs(l) == {j \in 1..Len(l) : l[j].ev = "div"}

\* the request of the remote call in flight
LastReq(l) == l[Len(l)].req

----------------------------------------------------------------------------
(* The single-order operations: validation, then one remote call *)

\* place_market_order up to the remote call
MarketPrepare(symbol, side, quantity) ==
    LET q == validate_quantity(quantity) IN
    IF ~q.ok THEN [ok |-> FALSE, req |-> NoReq]
    ELSE [ok |-> TRUE,
          req |-> CreateOrderReq("MARKET", symbol, UpperStr(side), q.v, NoVal, NoVal, "")]

\* place_limit_order up to the remote call
LimitPrepare(symbol, side, quantity, price) ==
    LET q == validate_quantity(quantity)
        p == validate_price(price) IN
    IF ~q.ok \/ ~p.ok THEN [ok |-> FALSE, req |-> NoReq]
    ELSE [ok |-> TRUE,
          req |-> CreateOrderReq("LIMIT", symbol, UpperStr(side), q.v, p.v, NoVal, "GTC")]

\* place_stop_limit_order up to the remote call
StopLimitPrepare(symbol, side, quantity, stop_price, limit_price) ==
    LET q == validate_quantity(quantity)
        s == validate_price(stop_price)
        p == validate_price(limit_price) IN
    IF ~q.ok \/ ~s.ok \/ ~p.ok THEN [ok |-> FALSE, req |-> NoReq]
    ELSE [ok |-> TRUE,
          req |-> CreateOrderReq("STOP", symbol, UpperStr(side), q.v, p.v, s.v, "GTC")]

\* A place_*_order after its remote call: "ok" returns the order;
\* "ok_postfail" is an accepted order whose response makes the logging or
\* formatting after the call raise (except Exception: return None);
\* "api_error" is BinanceAPIException, "error" any other Exception.
LeafResult_NoCatch(outcome, req, id) ==
    CASE outcome = "ok" -> [ret |-> OrderResponse(req, id), exc |-> "none"]
      [] outcome = "ok_postfail" -> [ret |-> None, exc |-> "none"]
      [] outcome = "api_error" -> [ret |-> None, exc |-> "none"]
      [] OTHER -> [ret |-> Pending, exc |-> "Exception"]

LeafResult(outcome, req, id) ==
    CASE outcome = "ok" -> [ret |-> OrderResponse(req, id), exc |-> "none"]
      [] outcome = "ok_postfail" -> [ret |-> None, exc |-> "none"]
      [] outcome = "api_error" -> [ret |-> None, exc |-> "none"]
      [] OTHER -> [ret |-> None, exc |-> "none"]

\* identifier the remote gives the order of the call in flight
NextOrderId(l) == NumCalls(l, "createOrder")

----------------------------------------------------------------------------
(* The state as one record, so that the steps of the code are functions *)

Cur == [pc |-> pc, caller |-> caller, cmd |-> cmd, op |-> op, args |-> args,
        i |-> i, orders |-> orders, log |-> log, ret |-> ret, raised |-> raised,
        reprompts |-> reprompts]

\* the next state is s (s is computed once)
Become(s) ==
    \E t \in {s} :
        /\ pc' = t.pc /\ caller' = t.caller /\ cmd' = t.cmd /\ op' = t.op
        /\ args' = t.args /\ i' = t.i /\ orders' = t.orders /\ log' = t.log
        /\ ret' = t.ret /\ raised' = t.raised /\ reprompts' = t.reprompts

Idle == [pc |-> "idle", caller |-> "api", cmd |-> "none", op |-> "none",
         args |-> NoArgs, i |-> 0, orders |-> <<>>, log |-> <<>>,
         ret |-> Pending, raised |-> "none", reprompts |-> 0]

\* the operation is over: it returned r, or exception e left it
Finished(s, l, r, e) == [s EXCEPT !.pc = "done", !.log = l, !.ret = r, !.raised = e]

\* the operation has sent a remote call and waits for the answer
Waiting(s, l, api, req) == [s EXCEPT !.pc = "wait", !.log = Append(l, CallEv(api, req))]

\* a dispatcher operation is entered
Enter(s, opname, a) == [s EXCEPT !.op = opname, !.args = a, !.i = 0, !.orders = <<>>]

----------------------------------------------------------------------------
(* place_market_order, place_limit_order, place_stop_limit_order *)

\* entry of a single-order operation whose validation gave m
EnterSingle(s, opname, a, m) ==
    LET e == Enter(s, opname, a) IN
    IF m.ok THEN Waiting(e, e.log, "createOrder", m.req)
    ELSE Finished(e, e.log, None, "none")

place_market_order(s, a) ==
    EnterSingle(s, "market", a, MarketPrepare(a.symbol, a.side, a.quantity))

place_limit_order(s, a) ==
    EnterSingle(s, "limit", a, LimitPrepare(a.symbol, a.side, a.quantity, a.price))

place_stop_limit_order(s, a) ==
    EnterSingle(s, "stop_limit", a,
        StopLimitPrepare(a.symbol, a.side, a.quantity, a.stop_price, a.price))

\* the remote call of a single-order operation ends with outcome o
SingleReturn_Retry(s, o) ==
    LET r == LeafResult(o, LastReq(s.log), NextOrderId(s.log))
        l == Append(s.log, ReturnEv(s.op, o, r.ret)) IN
    IF o = "api_error" /\ NumCalls(s.log, "createOrder") < 2
    THEN Waiting(s, l, "createOrder", LastReq(s.log))
    ELSE Finished(s, l, r.ret, r.exc)

SingleReturn(s, o) ==
    LET r == LeafResult(o, LastReq(s.log), NextOrderId(s.log)) IN
    Finished(s, Append(s.log, ReturnEv(s.op, o, r.ret)), r.ret, r.exc)

----------------------------------------------------------------------------
(* get_order_status, cancel_order *)

QueryReq(symbol, order_id) == [symbol |-> symbol, orderId |-> order_id]

QueryResponse(req, status) ==
    [t |-> "order", orderId |-> req.orderId, symbol |-> req.symbol, status |-> status]

get_order_status(s, a) ==
    LET e == Enter(s, "status", a) IN
    Waiting(e, e.log, "getOrder", QueryReq(a.symbol, a.order_id))

cancel_order(s, a) ==
    LET e == Enter(s, "cancel", a) IN
    Waiting(e, e.log, "cancelOrder", QueryReq(a.symbol, a.order_id))

\* get_order_status after its remote call ("ok_postfail": format_order_details raises)
StatusResult(outcome, req) ==
    IF outcome = "ok" THEN [ret |-> QueryResponse(req, "NEW"), exc |-> "none"]
    ELSE [ret |-> None, exc |-> "none"]

\* cancel_order after its remote call
CancelResult(outcome, req) ==
    IF outcome = "ok" THEN [ret |-> QueryResponse(req, "CANCELED"), exc |-> "none"]
    ELSE [ret |-> None, exc |-> "none"]

QueryReturn(s, o) ==
    LET r == IF s.op = "status" THEN StatusResult(o, LastReq(s.log))
             ELSE CancelResult(o, LastReq(s.log)) IN
    Finished(s, Append(s.log, ReturnEv(s.op, o, r.ret)), r.ret, r.exc)

----------------------------------------------------------------------------
(* place_oco_order *)

\* "if not limit_order: return None"
OcoAbortsAfterLimit_Never(limit_order) == FALSE

OcoAbortsAfterLimit(limit_order) == ~Truthy(limit_order)

\* the value returned when the stop-limit leg failed
OcoPartialResult(limit_order) == limit_order

\* the value returned when both legs were placed
OcoResult_LimitOnly(limit_order, stop_order) ==
    [t |-> "oco", oco_type |-> "MANUAL_OCO", limit_order |-> limit_order,
     stop_order |-> limit_order]

OcoResult(limit_order, stop_order) ==
    [t |-> "oco", oco_type |-> "MANUAL_OCO", limit_order |-> limit_order,
     stop_order |-> stop_order]

\* the stop-limit leg: place_stop_limit_order(symbol, side, quantity/2, stop_price, stop_limit_price)
OcoPlaceStop(s, l, limit_order) ==
    LET a == s.args
        q == validate_quantity(a.quantity).v
        m == StopLimitPrepare(a.symbol, UpperStr(a.side), Div(q, 2),
                              validate_price(a.stop_price).v,
                              validate_price(a.stop_limit_price).v)
        s1 == [s EXCEPT !.i = 1, !.orders = <<limit_order>>] IN
    IF m.ok THEN Waiting(s1, l, "createOrder", m.req)
    ELSE Finished(s1, Append(l, MsgEv("warning", "stop_limit_failed", 0, 0)),
                  OcoPartialResult(limit_order), "none")

place_oco_order(s, a) ==
    LET e == Enter(s, "oco", a)
        q == validate_quantity(a.quantity)
        p == validate_price(a.price)
        sp == validate_price(a.stop_price)
        slp == validate_price(a.stop_limit_price) IN
    IF ~q.ok \/ ~p.ok \/ ~sp.ok \/ ~slp.ok THEN Finished(e, e.log, None, "none")
    ELSE LET m == LimitPrepare(a.symbol, UpperStr(a.side), Div(q.v, 2), p.v) IN
         IF m.ok THEN Waiting(e, e.log, "createOrder", m.req)
         ELSE Finished(e, e.log, None, "none")

\* the limit leg's remote call ends with outcome o
OcoLimitReturn(s, o) ==
    LET r == LeafResult(o, LastReq(s.log), NextOrderId(s.log))
        l == Append(s.log, ReturnEv("limit", o, r.ret)) IN
    IF r.exc # "none" THEN Finished(s, l, None, "none")
    ELSE IF OcoAbortsAfterLimit(r.ret) THEN Finished(s, l, None, "none")
    ELSE OcoPlaceStop(s, l, r.ret)

\* the stop-limit leg's remote call ends with outcome o
OcoStopReturn(s, o) ==
    LET r == LeafResult(o, LastReq(s.log), NextOrderId(s.log))
        l == Append(s.log, ReturnEv("stop_limit", o, r.ret))
        limit_order == s.orders[1] IN
    IF r.exc # "none" THEN Finished(s, l, None, "none")
    ELSE IF ~Truthy(r.ret)
    THEN Finished(s, Append(l, MsgEv("warning", "stop_limit_failed", 0, 0)),
                  OcoPartialResult(limit_order), "none")
    ELSE Finished(s, Append(l, MsgEv("info", "oco_placed", 0, 0)),
                  OcoResult(limit_order, r.ret), "none")

----------------------------------------------------------------------------
(* place_twap_order *)

\* "if intervals <= 0: raise ...; if duration <= 0: raise ..."
TwapInputsValid_Unchecked(intervals, duration) == TRUE

TwapInputsValid(intervals, duration) == ~(intervals <= 0) /\ ~(duration <= 0)

\* quantity_per_order = total_quantity / intervals
QuantityPerOrder_Undivided(total_quantity, intervals) == total_quantity

QuantityPerOrder(total_quantity, intervals) == Div(total_quantity, intervals)

\* wait_time = duration / intervals
WaitTime(duration, intervals) == Div(Num(duration), intervals)

\* "if i < intervals - 1": sleep before the next order
ShouldSleep_AfterLast(idx, intervals) == idx < intervals

ShouldSleep(idx, intervals) == idx < intervals - 1

\* "if order: orders.append(order) else: ... break"
TwapAfterSlice_NoBreak(order, ords) ==
    IF Truthy(order) THEN [orders |-> Append(ords, order), stop |-> FALSE]
    ELSE [orders |-> ords, stop |-> FALSE]

TwapAfterSlice(order, ords) ==
    IF Truthy(order) THEN [orders |-> Append(ords, order), stop |-> FALSE]
    ELSE [orders |-> ords, stop |-> TRUE]

\* the "TWAP order completed: {len(orders)}/{intervals} orders executed" line
TwapSummary_Requested(ords, intervals) ==
    MsgEv("info", "twap_completed", intervals, intervals)

TwapSummary(ords, intervals) == MsgEv("info", "twap_completed", Len(ords), intervals)

\* "return orders"
TwapResult_NoneWhenEmpty(ords) ==
    IF ords = <<>> THEN None ELSE [t |-> "list", items |-> ords]

TwapResult(ords) == [t |-> "list", items |-> ords]

\* after the loop
TwapFinish_Rollback(s, l, ords) ==
    Finished([s EXCEPT !.orders = <<>>],
             IF 0 < Len(ords) /\ Len(ords) < s.args.intervals
             THEN Append(l, CallEv("cancelOrder", QueryReq(s.args.symbol, ords[1].orderId)))
             ELSE Append(l, TwapSummary(ords, s.args.intervals)),
             TwapResult(ords), "none")

TwapFinish(s, l, ords) ==
    Finished([s EXCEPT !.orders = ords],
             Append(l, TwapSummary(ords, s.args.intervals)), TwapResult(ords), "none")

\* iteration idx of the loop up to the remote call of place_market_order
TwapIterate(s, l, idx, ords) ==
    LET a == s.args
        q == validate_quantity(a.quantity).v
        m == MarketPrepare(a.symbol, UpperStr(a.side),
                           QuantityPerOrder(q, a.intervals)) IN
    IF m.ok THEN Waiting([s EXCEPT !.i = idx, !.orders = ords], l, "createOrder", m.req)
    ELSE TwapFinish(s, l, ords)

\* "for i in range(intervals)": the next iteration, or the end of the loop
TwapNext_Unbounded(s, l, idx, ords) == TwapIterate(s, l, idx, ords)

TwapNext(s, l, idx, ords) ==
    IF idx < s.args.intervals THEN TwapIterate(s, l, idx, ords)
    ELSE TwapFinish(s, l, ords)

place_twap_order(s, a) ==
    LET e == Enter(s, "twap", a)
        q == validate_quantity(a.quantity) IN
    IF ~q.ok THEN Finished(e, e.log, None, "none")
    ELSE IF ~TwapInputsValid(a.intervals, a.duration) THEN Finished(e, e.log, None, "none")
    ELSE IF a.intervals = 0
    THEN Finished(e, Append(e.log, DivEv("place_twap_order", 0)), None, "none")
    ELSE TwapNext(e, Append(e.log, DivEv("place_twap_order", a.intervals)), 0, <<>>)

\* the remote call of iteration i ends with outcome o
TwapSliceReturn(s, o) ==
    LET r == LeafResult(o, LastReq(s.log), NextOrderId(s.log))
        l == Append(s.log, ReturnEv("market", o, r.ret)) IN
    IF r.exc # "none" THEN Finished(s, l, None, "none")
    ELSE LET n == TwapAfterSlice(r.ret, s.orders) IN
         IF n.stop THEN TwapFinish(s, l, n.orders)
         ELSE IF ShouldSleep(s.i, s.args.intervals)
         THEN [s EXCEPT !.pc = "sleep", !.orders = n.orders,
                        !.log = Append(l, SleepEv(WaitTime(s.args.duration, s.args.intervals)))]
         ELSE TwapNext(s, l, s.i + 1, n.orders)

\* time.sleep(wait_time) returns
TwapWake(s) == TwapNext(s, s.log, s.i + 1, s.orders)

----------------------------------------------------------------------------
(* The command handlers of BasicBot *)

\* run_cli has read command cm and calls its handler
HandlerStart(cm) == [Idle EXCEPT !.caller = "cli", !.cmd = cm]

\* the handler printed msg and returned
HandlerDone_Exits(s, level, msg) ==
    [s EXCEPT !.pc = IF level = "error" THEN "exited" ELSE "done",
              !.log = Append(s.log, MsgEv(level, msg, 0, 0))]

HandlerDone(s, level, msg) ==
    [s EXCEPT !.pc = "done", !.log = Append(s.log, MsgEv(level, msg, 0, 0))]

\* get_current_price up to its remote call
get_current_price(s) ==
    [s EXCEPT !.pc = "ticker",
              !.log = Append(s.log, CallEv("symbolTicker", QueryReq(s.args.symbol, 0)))]

\* symbol = input().strip().upper(); symbol = validate_symbol(symbol)
InputSymbol(sym) == validate_symbol(Upper(Strip(sym)))

\* side = input().strip().upper(); "if side not in ['BUY', 'SELL']"
SideOk(side) == UpperStr(side) \in {"BUY", "SELL"}

\* the inputs every order handler reads first; nums are the float(input()) values after them
OrderInputs(cm, sym, side, nums, a) ==
    LET s == HandlerStart(cm)
        sv == InputSymbol(sym) IN
    IF ~sv.ok THEN HandlerDone(s, "error", "invalid_symbol")
    ELSE IF ~SideOk(side) THEN HandlerDone(s, "error", "invalid_side")
    ELSE IF \E j \in 1..Len(nums) : Float(nums[j]).exc # "none"
    THEN HandlerDone(s, "error", "invalid_input")
    ELSE get_current_price([s EXCEPT !.args =
             [a EXCEPT !.symbol = sv.v, !.side = UpperStr(side)]])

handle_market_order(sym, side, quantity) ==
    OrderInputs("market", sym, side, <<quantity>>,
                [NoArgs EXCEPT !.quantity = quantity])

handle_limit_order(sym, side, quantity, price) ==
    OrderInputs("limit", sym, side, <<quantity, price>>,
                [NoArgs EXCEPT !.quantity = quantity, !.price = price])

handle_stop_limit_order(sym, side, quantity, stop_price, limit_price) ==
    OrderInputs("stop-limit", sym, side, <<quantity, stop_price, limit_price>>,
                [NoArgs EXCEPT !.quantity = quantity, !.stop_price = stop_price,
                               !.price = limit_price])

handle_oco_order(sym, side, quantity, price, stop_price, stop_limit_price) ==
    OrderInputs("oco", sym, side, <<quantity, price, stop_price, stop_limit_price>>,
                [NoArgs EXCEPT !.quantity = quantity, !.price = price,
                               !.stop_price = stop_price,
                               !.stop_limit_price = stop_limit_price])

handle_twap_order(sym, side, total_quantity, intervals, duration) ==
    OrderInputs("twap", sym, side, <<total_quantity>>,
                [NoArgs EXCEPT !.quantity = total_quantity, !.intervals = intervals,
                               !.duration = duration])

handle_price_command(sym) ==
    LET s == HandlerStart("price")
        sv == InputSymbol(sym) IN
    IF ~sv.ok THEN HandlerDone(s, "error", "invalid_symbol")
    ELSE get_current_price([s EXCEPT !.args = [NoArgs EXCEPT !.symbol = sv.v]])

handle_order_status(sym, order_id) ==
    LET s == HandlerStart("status")
        sv == InputSymbol(sym) IN
    IF ~sv.ok THEN HandlerDone(s, "error", "invalid_symbol")
    ELSE get_order_status(s, [NoArgs EXCEPT !.symbol = sv.v, !.order_id = order_id])

handle_cancel_order(sym, order_id) ==
    LET s == HandlerStart("cancel")
        sv == InputSymbol(sym) IN
    IF ~sv.ok THEN HandlerDone(s, "error", "invalid_symbol")
    ELSE [s EXCEPT !.pc = "confirm",
                   !.args = [NoArgs EXCEPT !.symbol = sv.v, !.order_id = order_id]]

\* get_current_price returns to the handler; the handler goes on to the confirmation
TickerReturn(s, o) ==
    LET price == IF o = "ok" THEN [t |-> "price"] ELSE None
        s1 == [s EXCEPT !.log = Append(s.log, ReturnEv("ticker", o, price))] IN
    IF s.cmd = "price" THEN [s1 EXCEPT !.pc = "done"]
    ELSE IF s.cmd = "market" /\ ~Truthy(price) THEN [s1 EXCEPT !.pc = "done"]
    ELSE IF s.cmd = "twap" /\ s.args.intervals = 0
    THEN HandlerDone([s1 EXCEPT !.log = Append(s1.log, DivEv("handle_twap_order", 0))],
                     "error", "handler_exception")
    ELSE IF s.cmd = "twap"
    THEN [s1 EXCEPT !.pc = "confirm",
                    !.log = Append(s1.log, DivEv("handle_twap_order", s.args.intervals))]
    ELSE [s1 EXCEPT !.pc = "confirm"]

\* get_account_balance up to its first futures_account call
get_account_balance ==
    [HandlerStart("balance") EXCEPT !.pc = "account",
                                    !.log = <<CallEv("accountInfo", NoReq)>>]

\* the futures_account call of the try block ends with outcome o ("ok_postfail":
\* reading or formatting the response raises); "except Exception" reports the
\* failure and calls futures_account once more to print the keys of the response
AccountReturn(s, o) ==
    LET l == Append(s.log, ReturnEv("account", o,
                                    IF o = "ok" THEN [t |-> "balances"] ELSE None)) IN
    IF o = "ok" THEN [s EXCEPT !.pc = "done", !.log = l]
    ELSE [s EXCEPT !.pc = "account_debug",
                   !.log = Append(Append(l, MsgEv("error", "balance_failed", 0, 0)),
                                  CallEv("accountInfo", NoReq))]

\* the futures_account call of the except block ends with outcome o
AccountDebugReturn(s, o) ==
    LET l == Append(s.log, ReturnEv("account_debug", o, None)) IN
    IF o = "ok" THEN [s EXCEPT !.pc = "done", !.log = l]
    ELSE HandlerDone([s EXCEPT !.log = l], "error", "debug_error")

\* get_user_confirmation returned True: the handler calls the dispatcher
Confirmed(s) ==
    CASE s.cmd = "market" -> place_market_order(s, s.args)
      [] s.cmd = "limit" -> place_limit_order(s, s.args)
      [] s.cmd = "stop-limit" -> place_stop_limit_order(s, s.args)
      [] s.cmd = "oco" -> place_oco_order(s, s.args)
      [] s.cmd = "twap" -> place_twap_order(s, s.args)
      [] OTHER -> cancel_order(s, s.args)

----------------------------------------------------------------------------
(* Exceptions that leave the handlers *)

\* the except clauses around the loop body of run_cli
RunCliCatches_OnlyException(exc) == exc = "Exception"

RunCliCatches(exc) == exc \in {"KeyboardInterrupt", "Exception"}

\* KeyboardInterrupt is raised where the program blocks (s.pc). No handler and
\* no dispatcher operation catches it. run_cli prints "Interrupted" and goes on
\* with its loop; what run_cli does not catch ends the program in main. A
\* direct caller of the dispatcher receives the exception.
Interrupted(s) ==
    LET l == Append(s.log, InterruptEv(s.pc)) IN
    IF s.caller = "cli"
    THEN IF RunCliCatches("KeyboardInterrupt")
         THEN Finished(s, Append(l, MsgEv("info", "interrupted", 0, 0)),
                       s.ret, "KeyboardInterrupt")
         ELSE [s EXCEPT !.pc = "stopped", !.log = l, !.raised = "KeyboardInterrupt"]
    ELSE Finished(s, l, s.ret, "KeyboardInterrupt")

----------------------------------------------------------------------------
(* Initial state and actions *)

Init ==
    /\ pc = Idle.pc /\ caller = Idle.caller /\ cmd = Idle.cmd /\ op = Idle.op
    /\ args = Idle.args /\ i = Idle.i /\ orders = Idle.orders /\ log = Idle.log
    /\ ret = Idle.ret /\ raised = Idle.raised /\ reprompts = Idle.reprompts

(* direct calls of the dispatcher *)

CallPlaceMarketOrder ==
    /\ pc = "idle"
    /\ \E sym \in ApiSymbols, side \in ApiSides, q \in Quantities :
         Become(place_market_order(Idle,
             [NoArgs EXCEPT !.symbol = sym, !.side = side, !.quantity = q]))

CallPlaceLimitOrder ==
    /\ pc = "idle"
    /\ \E sym \in ApiSymbols, side \in ApiSides, q \in Quantities, p \in Prices :
         Become(place_limit_order(Idle,
             [NoArgs EXCEPT !.symbol = sym, !.side = side, !.quantity = q, !.price = p]))

CallPlaceStopLimitOrder ==
    /\ pc = "idle"
    /\ \E sym \in ApiSymbols, side \in ApiSides, q \in Quantities, sp \in Prices, p \in Prices :
         Become(place_stop_limit_order(Idle,
             [NoArgs EXCEPT !.symbol = sym, !.side = side, !.quantity = q,
                            !.stop_price = sp, !.price = p]))

CallPlaceOcoOrder ==
    /\ pc = "idle"
    /\ \E sym \in ApiSymbols, side \in ApiSides, q \in Quantities,
          p \in Prices, sp \in Prices, slp \in Prices :
         Become(place_oco_order(Idle,
             [NoArgs EXCEPT !.symbol = sym, !.side = side, !.quantity = q, !.price = p,
                            !.stop_price = sp, !.stop_limit_price = slp]))

CallPlaceTwapOrder ==
    /\ pc = "idle"
    /\ \E sym \in ApiSymbols, side \in ApiSides, q \in Quantities,
          n \in Intervals, d \in Durations :
         Become(place_twap_order(Idle,
             [NoArgs EXCEPT !.symbol = sym, !.side = side, !.quantity = q,
                            !.intervals = n, !.duration = d]))

CallGetOrderStatus ==
    /\ pc = "idle"
    /\ \E sym \in ApiSymbols, id \in OrderIds :
         Become(get_order_status(Idle, [NoArgs EXCEPT !.symbol = sym, !.order_id = id]))

CallCancelOrder ==
    /\ pc = "idle"
    /\ \E sym \in ApiSymbols, id \in OrderIds :
         Become(cancel_order(Idle, [NoArgs EXCEPT !.symbol = sym, !.order_id = id]))

(* the remote answers *)

MarketReturn ==
    /\ pc = "wait" /\ op = "market"
    /\ \E o \in CreateOutcomes : Become(SingleReturn(Cur, o))

LimitReturn ==
    /\ pc = "wait" /\ op = "limit"
    /\ \E o \in CreateOutcomes : Become(SingleReturn(Cur, o))

StopLimitReturn ==
    /\ pc = "wait" /\ op = "stop_limit"
    /\ \E o \in CreateOutcomes : Become(SingleReturn(Cur, o))

StatusReturn ==
    /\ pc = "wait" /\ op = "status"
    /\ \E o \in QueryOutcomes : Become(QueryReturn(Cur, o))

CancelReturn ==
    /\ pc = "wait" /\ op = "cancel"
    /\ \E o \in CancelOutcomes : Become(QueryReturn(Cur, o))

OcoLimitLegReturn ==
    /\ pc = "wait" /\ op = "oco" /\ i = 0
    /\ \E o \in CreateOutcomes : Become(OcoLimitReturn(Cur, o))

OcoStopLegReturn ==
    /\ pc = "wait" /\ op = "oco" /\ i = 1
    /\ \E o \in CreateOutcomes : Become(OcoStopReturn(Cur, o))

TwapOrderReturn ==
    /\ pc = "wait" /\ op = "twap"
    /\ \E o \in CreateOutcomes : Become(TwapSliceReturn(Cur, o))

TwapSleepReturn ==
    /\ pc = "sleep"
    /\ Become(TwapWake(Cur))

(* the command loop *)

CmdMarket ==
    /\ pc = "idle"
    /\ \E sym \in CliSymbols, side \in CliSides, q \in CliQuantities :
         Become(handle_market_order(sym, side, q))

CmdLimit ==
    /\ pc = "idle"
    /\ \E sym \in CliSymbols, side \in CliSides, q \in CliQuantities, p \in Prices :
         Become(handle_limit_order(sym, side, q, p))

CmdStopLimit ==
    /\ pc = "idle"
    /\ \E sym \in CliSymbols, side \in CliSides, q \in CliQuantities,
          sp \in Prices, p \in Prices :
         Become(handle_stop_limit_order(sym, side, q, sp, p))

CmdOco ==
    /\ pc = "idle"
    /\ \E sym \in CliSymbols, side \in CliSides, q \in CliQuantities,
          p \in Prices, sp \in Prices, slp \in Prices :
         Become(handle_oco_order(sym, side, q, p, sp, slp))

CmdTwap ==
    /\ pc = "idle"
    /\ \E sym \in CliSymbols, side \in CliSides, q \in CliQuantities,
          n \in Intervals, d \in Durations :
         Become(handle_twap_order(sym, side, q, n, d))

CmdPrice ==
    /\ pc = "idle"
    /\ \E sym \in CliSymbols : Become(handle_price_command(sym))

CmdStatus ==
    /\ pc = "idle"
    /\ \E sym \in CliSymbols, id \in OrderIds : Become(handle_order_status(sym, id))

CmdCancel ==
    /\ pc = "idle"
    /\ \E sym \in CliSymbols, id \in OrderIds : Become(handle_cancel_order(sym, id))

\* help, config and unknown commands only print
CmdOther ==
    /\ pc = "idle"
    /\ \E cm \in {"help", "config", "unknown"} :
         Become([HandlerStart(cm) EXCEPT !.pc = "done"])

\* exit, quit: the loop breaks
CmdExit ==
    /\ pc = "idle"
    /\ Become([HandlerStart("exit") EXCEPT !.pc = "exited"])

CmdBalance ==
    /\ pc = "idle"
    /\ Become(get_account_balance)

GetAccountBalanceReturn ==
    /\ pc = "account"
    /\ \E o \in AccountOutcomes : Become(AccountReturn(Cur, o))

GetAccountBalanceDebugReturn ==
    /\ pc = "account_debug"
    /\ \E o \in AccountOutcomes : Become(AccountDebugReturn(Cur, o))

GetCurrentPriceReturn ==
    /\ pc = "ticker"
    /\ \E o \in TickerOutcomes : Become(TickerReturn(Cur, o))

\* get_user_confirmation has read the answer
Answered(s, answer) == [s EXCEPT !.log = Append(s.log, AnswerEv(answer))]

\* get_user_confirmation: 'yes' / 'y'
AnswerYes ==
    /\ pc = "confirm"
    /\ Become(Confirmed(Answered(Cur, "yes")))

\* get_user_confirmation: 'no' / 'n'
AnswerNo_Places ==
    /\ pc = "confirm"
    /\ Become(Confirmed(Answered(Cur, "no")))

AnswerNo ==
    /\ pc = "confirm"
    /\ Become(HandlerDone(Answered(Cur, "no"), "warning", "cancelled"))

\* get_user_confirmation: anything else asks again
AnswerOther ==
    /\ pc = "confirm"
    /\ reprompts < MaxReprompts
    /\ Become([Answered(Cur, "other") EXCEPT !.reprompts = reprompts + 1])

\* Ctrl-C while the program blocks in a remote call, a sleep or an input():
\* KeyboardInterrupt is no Exception, so no "except Exception" catches it
KeyboardInterrupt ==
    /\ pc \in {"wait", "sleep", "ticker", "confirm", "account", "account_debug"}
    /\ Become(Interrupted(Cur))

\* Ctrl-C while run_cli waits in input("Enter command: ")
PromptInterrupt ==
    /\ pc = "idle"
    /\ Become(Interrupted([HandlerStart("none") EXCEPT !.pc = "prompt"]))

\* the operation's values are discarded; run_cli prompts for the next command
NextCommand ==
    /\ pc = "done"
    /\ Become(Idle)

Next ==
    \/ CallPlaceMarketOrder \/ CallPlaceLimitOrder \/ CallPlaceStopLimitOrder
    \/ CallPlaceOcoOrder \/ CallPlaceTwapOrder \/ CallGetOrderStatus \/ CallCancelOrder
    \/ MarketReturn \/ LimitReturn \/ StopLimitReturn \/ StatusReturn \/ CancelReturn
    \/ OcoLimitLegReturn \/ OcoStopLegReturn \/ TwapOrderReturn \/ TwapSleepReturn
    \/ CmdMarket \/ CmdLimit \/ CmdStopLimit \/ CmdOco \/ CmdTwap
    \/ CmdPrice \/ CmdStatus \/ CmdCancel \/ CmdOther \/ CmdExit
    \/ CmdBalance \/ GetAccountBalanceReturn \/ GetAccountBalanceDebugReturn
    \/ GetCurrentPriceReturn \/ AnswerYes \/ AnswerNo \/ AnswerOther
    \/ KeyboardInterrupt \/ PromptInterrupt \/ NextCommand

Spec == Init /\ [][Next]_vars

----------------------------------------------------------------------------
(* Properties *)

IsMarketReturn(e) == e.ev = "return" /\ e.op = "market"
IsCreateCall(e) == IsCall(e, "createOrder")

\* the sub-orders of a time-sliced run that have returned, and the calls made for them
SubOrderReturns == SelectSeq(log, IsMarketReturn)
CreateCalls == SelectSeq(log, IsCreateCall)

\* sub-order k is the first that failed
FirstFailure(k) ==
    /\ k \in 1..Len(SubOrderReturns)
    /\ ~Truthy(SubOrderReturns[k].result)
    /\ \A j \in 1..(k - 1) : Truthy(SubOrderReturns[j].result)

\* place_twap_order has returned a list
TwapReturnedList == op = "twap" /\ pc = "done" /\ raised = "none" /\ ret.t = "list"

\* C1: in place_twap_order, if sub-order k is the first to fail, exactly k
\* createOrder calls have been made, none follows the failed one, and the
\* returned list holds exactly the k-1 results of the sub-orders before it,
\* in submission order.
C1_TwapStopsAtFirstFailure ==
    op = "twap" =>
        \A k \in 1..Len(SubOrderReturns) :
            FirstFailure(k) =>
                /\ Len(SubOrderReturns) = k
                /\ Len(CreateCalls) = k
                /\ log[Len(log) - 1] = SubOrderReturns[k]
                /\ pc = "done" /\ raised = "none"
                /\ ret = [t |-> "list",
                          items |-> [j \in 1..(k - 1) |-> SubOrderReturns[j].result]]

\* sub-order 3 of 5 failed and the run returned 2 entries
C1_Witness ==
    /\ TwapReturnedList /\ args.intervals = 5
    /\ FirstFailure(3) /\ Len(ret.items) = 2 /\ Len(CreateCalls) = 3

\* C2: in place_oco_order the limit leg is called before any stop-limit leg,
\* and when the limit leg fails no further createOrder call is made and the
\* operation returns None.
C2_OcoLimitLegFirst ==
    op = "oco" =>
        /\ \A j \in 1..Len(CreateCalls) :
              CreateCalls[j].req.type = "STOP" =>
                  j = 2 /\ CreateCalls[1].req.type = "LIMIT"
        /\ \A j \in 1..Len(log) :
              (log[j].ev = "return" /\ log[j].op = "limit" /\ ~Truthy(log[j].result)) =>
                  /\ j = Len(log)
                  /\ Len(CreateCalls) = 1 /\ CreateCalls[1].req.type = "LIMIT"
                  /\ pc = "done" /\ ret = None /\ raised = "none"

\* the limit leg was rejected by the exchange
C2_Witness ==
    /\ op = "oco" /\ pc = "done" /\ Len(log) > 0
    /\ log[Len(log)].ev = "return" /\ log[Len(log)].op = "limit"
    /\ log[Len(log)].outcome = "api_error"
    /\ Len(CreateCalls) = 1 /\ ret = None

\* place_oco_order returned after its limit leg succeeded and its stop-limit leg failed
OcoPartial ==
    /\ op = "oco" /\ pc = "done" /\ raised = "none"
    /\ \E j \in 1..Len(log) :
          log[j].ev = "return" /\ log[j].op = "limit" /\ Truthy(log[j].result)
    /\ \E j \in 1..Len(log) :
          log[j].ev = "return" /\ log[j].op = "stop_limit" /\ ~Truthy(log[j].result)

\* what place_limit_order returned for the limit leg: the value a plain limit order returns
LimitLegResult ==
    LET j == CHOOSE m \in 1..Len(log) : log[m].ev = "return" /\ log[m].op = "limit"
    IN log[j].result

\* C3: with a succeeding limit leg and a failing stop-limit leg, place_oco_order
\* returns a value holding only the limit leg that is flagged partial: it is
\* neither absent, nor a two-leg result, nor the value of a plain limit order.
C3_OcoPartialIsFlagged ==
    (OcoPartial /\ IsPositiveNumber(args.quantity) /\ IsPositiveNumber(args.price)
         /\ IsPositiveNumber(args.stop_price) /\ IsPositiveNumber(args.stop_limit_price)) =>
        /\ ret # None
        /\ ret.t # "oco"
        /\ ret # LimitLegResult

\* a remote call of the operation raised an error
RemoteErrorSeen ==
    \E j \in 1..Len(log) :
        /\ log[j].ev = "return" /\ log[j].op # "ticker"
        /\ log[j].outcome \in {"api_error", "error"}

\* C4 as claimed: for every dispatcher operation, an error raised by a remote
\* call ends the operation with result None and no exception.
C4_RemoteErrorYieldsNone ==
    (op # "none" /\ pc = "done" /\ RemoteErrorSeen) => (ret = None /\ raised = "none")

\* C4 as amended: the error is caught in the operation that made the call,
\* which yields None, and never leaves a dispatcher operation as an
\* exception; place_market_order, place_limit_order, place_stop_limit_order,
\* get_order_status, cancel_order and place_oco_order with a failing limit leg
\* return None, place_oco_order with a failing stop-limit leg returns the
\* limit order, place_twap_order returns the list of the orders placed before.
C4_RemoteErrorsCaught ==
    /\ raised \in {"none", "KeyboardInterrupt"}
    /\ \A j \in 1..Len(log) :
          (log[j].ev = "return" /\ log[j].outcome \in {"api_error", "error"}) =>
              log[j].result = None
    /\ (op # "none" /\ pc = "done" /\ RemoteErrorSeen) =>
          /\ raised = "none"
          /\ op \in {"market", "limit", "stop_limit", "status", "cancel"} => ret = None
          /\ (op = "oco" /\ Len(CreateCalls) = 1) => ret = None
          /\ (op = "oco" /\ Len(CreateCalls) = 2) => ret = LimitLegResult
          /\ op = "twap" =>
                ret = [t |-> "list", items |-> SubSeq(orders, 1, Len(CreateCalls) - 1)]

\* a transport error in the third sub-order of a time-sliced run: the
\* sub-order yields None, the run returns the two orders placed before
C4_Witness ==
    /\ TwapReturnedList /\ RemoteErrorSeen
    /\ Len(SubOrderReturns) = 3 /\ SubOrderReturns[3].outcome = "error"
    /\ SubOrderReturns[3].result = None /\ Len(ret.items) = 2

\* the operation has an argument that is not a positive number
InvalidSingleArgs ==
    \/ op \in {"market", "limit", "stop_limit"} /\ ~IsPositiveNumber(args.quantity)
    \/ op \in {"limit", "stop_limit"} /\ ~IsPositiveNumber(args.price)
    \/ op = "stop_limit" /\ ~IsPositiveNumber(args.stop_price)

\* C5: place_market_order, place_limit_order and place_stop_limit_order called
\* with a quantity or price that is not a positive number make no createOrder
\* call and return None.
C5_InvalidInputNeverReachesNetwork ==
    InvalidSingleArgs =>
        /\ Len(CreateCalls) = 0
        /\ pc = "done" /\ ret = None

OrderCommands == {"market", "limit", "stop-limit", "oco", "twap"}

\* the command has read a quantity or a price that is not a positive number
InvalidCommandInput ==
    /\ caller = "cli" /\ cmd \in OrderCommands /\ args # NoArgs
    /\ \/ ~IsPositiveNumber(args.quantity)
       \/ cmd \in {"limit", "stop-limit", "oco"} /\ ~IsPositiveNumber(args.price)
       \/ cmd \in {"stop-limit", "oco"} /\ ~IsPositiveNumber(args.stop_price)
       \/ cmd = "oco" /\ ~IsPositiveNumber(args.stop_limit_price)

\* C6: an order command whose symbol, quantity or price is invalid makes no
\* remote call of any kind, the ticker lookup included.
C6_ValidatedBeforeAnyNetworkCall ==
    InvalidCommandInput => RemoteCalls(log) = {}

\* C7: place_twap_order with intervals <= 0 or duration <= 0 fails: no
\* createOrder call, no pacing delay, no division by intervals, result None.
C7_TwapRejectsNonPositive ==
    (op = "twap" /\ (args.intervals <= 0 \/ args.duration <= 0)) =>
        /\ Len(CreateCalls) = 0
        /\ Sleeps(log) = {}
        /\ \A j \in Divs(log) : log[j].where # "place_twap_order"
        /\ pc = "done" /\ ret = None /\ raised = "none"

\* place_twap_order(quantity 1, intervals 0, duration 300) called directly
C7_Witness ==
    /\ op = "twap" /\ caller = "api" /\ pc = "done" /\ ret = None
    /\ args.intervals = 0 /\ args.duration = 300 /\ args.quantity = Num(1)

\* the createOrder calls made before position j of the log
CallsBefore(j) == Cardinality({m \in CallsOf(log, "createOrder") : m < j})

\* C8: in place_twap_order a delay of duration / intervals seconds is taken
\* after each successful sub-order that is not the last and before the next
\* createOrder call, none after the last or a failed sub-order; a fully
\* successful run takes intervals-1 delays, a run whose first failure is
\* sub-order k takes k-1.
C8_TwapPacing ==
    op = "twap" =>
        /\ \A j \in Sleeps(log) :
              /\ log[j].secs.k = "float"
              /\ log[j].secs.n * args.intervals = args.duration * log[j].secs.d
              /\ IsMarketReturn(log[j - 1]) /\ Truthy(log[j - 1].result)
              /\ CallsBefore(j) < args.intervals
              /\ j < Len(log) =>
                    IsCreateCall(log[j + 1]) \/ log[j + 1] = InterruptEv("sleep")
        /\ \A j \in 1..Len(log) :
              (IsMarketReturn(log[j]) /\ Truthy(log[j].result)
                    /\ CallsBefore(j) < args.intervals) =>
                  j < Len(log) /\ log[j + 1].ev = "sleep"
        /\ \A j \in 2..Len(log) :
              (IsCreateCall(log[j]) /\ CallsBefore(j) > 0) => log[j - 1].ev = "sleep"
        /\ TwapReturnedList =>
              /\ Len(ret.items) = args.intervals =>
                    Cardinality(Sleeps(log)) = args.intervals - 1
              /\ \A k \in 1..Len(SubOrderReturns) :
                    FirstFailure(k) => Cardinality(Sleeps(log)) = k - 1

\* duration 300 over 5 intervals: four delays of 60 seconds, all sub-orders placed
C8_Witness ==
    /\ TwapReturnedList /\ args.intervals = 5 /\ args.duration = 300
    /\ Len(ret.items) = 5 /\ Cardinality(Sleeps(log)) = 4
    /\ \A j \in Sleeps(log) : NumEq(log[j].secs, Num(60))

\* sum of the quantities of a sequence of createOrder calls
RECURSIVE SumQuantities(_)
SumQuantities(calls) ==
    IF calls = <<>> THEN Num(0)
    ELSE LET q == Head(calls).req.quantity
             r == SumQuantities(Tail(calls)) IN
         [k |-> "float", n |-> q.n * r.d + r.n * q.d, d |-> q.d * r.d]

\* C9: when every sub-order succeeds, place_twap_order has made exactly
\* intervals createOrder calls, each a MARKET order of the same symbol and
\* side and of quantity total_quantity / intervals, which sum to
\* total_quantity, and it returns a list of intervals entries.
C9_TwapEqualSlices ==
    (TwapReturnedList /\ Len(SubOrderReturns) = args.intervals
         /\ \A j \in 1..Len(SubOrderReturns) : Truthy(SubOrderReturns[j].result)) =>
        /\ Len(CreateCalls) = args.intervals
        /\ Len(ret.items) = args.intervals
        /\ \A j \in 1..Len(CreateCalls) :
              LET r == CreateCalls[j].req IN
              /\ r.type = "MARKET" /\ r.symbol = args.symbol
              /\ r.side = UpperStr(args.side)
              /\ r.quantity.k = args.quantity.k
              /\ args.quantity.k = "float" =>
                    r.quantity.n * args.intervals = args.quantity.n * r.quantity.d
              /\ ret.items[j].origQty = r.quantity
        /\ args.quantity.k = "float" => NumEq(SumQuantities(CreateCalls), args.quantity)

\* quantity 1 in 5 slices of 1/5
C9_Witness ==
    /\ TwapReturnedList /\ args.intervals = 5 /\ args.quantity = Num(1)
    /\ Len(ret.items) = 5 /\ Len(CreateCalls) = 5
    /\ \A j \in 1..5 : NumEq(CreateCalls[j].req.quantity, [k |-> "float", n |-> 1, d |-> 5])

\* place_twap_order returned after a sub-order failed
TwapFailed == TwapReturnedList /\ \E k \in 1..Len(SubOrderReturns) : FirstFailure(k)

\* C10 as claimed: on a failed sub-order the returned value carries the list
\* of successful results, the completed count and the requested intervals.
C10_ReturnCarriesCounts ==
    TwapFailed =>
        /\ ret.items = orders
        /\ {"completed", "requested"} \subseteq DOMAIN ret
        /\ ret.completed = Len(orders) /\ ret.requested = args.intervals

\* C10 as amended: on a failed sub-order place_twap_order returns only the
\* list of the successful results (its length is the completed count); the
\* count of completed and requested orders is logged and printed, not returned.
C10_ReturnIsListCountsAreLogged ==
    TwapFailed =>
        /\ DOMAIN ret = {"t", "items"}
        /\ ret.items = SelectSeq([j \in 1..Len(SubOrderReturns) |->
                                      SubOrderReturns[j].result], Truthy)
        /\ log[Len(log)] = MsgEv("info", "twap_completed", Len(ret.items), args.intervals)
        /\ Len(ret.items) < args.intervals

\* 2 of 5 orders executed
C10_Witness ==
    /\ TwapFailed /\ Len(ret.items) = 2
    /\ log[Len(log)] = MsgEv("info", "twap_completed", 2, 5)

----------------------------------------------------------------------------
(* Termination of place_twap_order *)

\* every createOrder call and every time.sleep of the loop returns
FairSpec == Spec /\ WF_vars(TwapOrderReturn) /\ WF_vars(TwapSleepReturn)

\* place_twap_order is inside its loop
TwapRunning == op = "twap" /\ pc \in {"wait", "sleep"}

\* place_twap_order returned a list with one entry per requested slice
TwapComplete == TwapReturnedList /\ Len(ret.items) = args.intervals

\* every sub-order that has returned was accepted
AllSlicesSubmitted == \A k \in 1..Len(SubOrderReturns) : Truthy(SubOrderReturns[k].result)

\* a slice is called once and then returns: at most the last call is unanswered,
\* and no more than `intervals` slices are called; a failed slice is the last
\* slice and ends the run; the run returns `intervals` entries exactly when
\* `intervals` slices returned and all of them were accepted
TwapSliceLifecycle ==
    op = "twap" =>
        /\ Len(CreateCalls) <= IF args.intervals > 0 THEN args.intervals ELSE 0
        /\ Len(SubOrderReturns) <= Len(CreateCalls)
        /\ Len(CreateCalls) <= Len(SubOrderReturns) + 1
        /\ pc = "wait" => Len(CreateCalls) = Len(SubOrderReturns) + 1
        /\ pc = "sleep" => /\ Len(CreateCalls) = Len(SubOrderReturns)
                           /\ AllSlicesSubmitted
                           /\ Len(CreateCalls) < args.intervals
        /\ \A k \in 1..Len(SubOrderReturns) :
              ~Truthy(SubOrderReturns[k].result) =>
                  k = Len(SubOrderReturns) /\ pc = "done" /\ ~TwapComplete
        /\ (pc = "done" /\ raised = "none" /\ Len(CreateCalls) > 0) =>
              (TwapComplete <=>
                  (Len(SubOrderReturns) = args.intervals /\ AllSlicesSubmitted))

\* C11: when every remote call and every pacing delay returns, a run of
\* place_twap_order that entered its loop ends, after at most `intervals`
\* slices; each slice is called and then returns accepted or failed, a failed
\* slice ends the run, and the run is complete exactly when all `intervals`
\* slices were accepted.
C11_TwapTerminates == [](TwapSliceLifecycle) /\ (TwapRunning ~> pc = "done")

\* a run of 4 slices went through 3 delays and returned complete
C11_Witness ==
    /\ TwapComplete /\ args.intervals = 4 /\ AllSlicesSubmitted
    /\ Len(SubOrderReturns) = 4 /\ Cardinality(Sleeps(log)) = 3

----------------------------------------------------------------------------
(* Interrupts and rollback *)

\* position in the log of a KeyboardInterrupt raised in time.sleep, 0 if none
InterruptInDelay ==
    IF \E j \in 1..Len(log) : log[j] = InterruptEv("sleep")
    THEN CHOOSE j \in 1..Len(log) : log[j] = InterruptEv("sleep")
    ELSE 0

\* C12: a KeyboardInterrupt raised during the pacing delay of a time-sliced run
\* started from the command loop is followed by no remote call at all (no
\* further createOrder, no cancelOrder for the sub-orders already placed), and
\* run_cli catches it, reports it and goes on prompting: the program does not end.
C12_InterruptInDelayAbortsCleanly ==
    (caller = "cli" /\ InterruptInDelay > 0) =>
        /\ op = "twap"
        /\ \A j \in RemoteCalls(log) : j < InterruptInDelay
        /\ NumCalls(log, "cancelOrder") = 0
        /\ Len(orders) = Len(CreateCalls) /\ Len(orders) > 0
        /\ pc = "done" /\ raised = "KeyboardInterrupt"
        /\ log[Len(log)] = MsgEv("info", "interrupted", 0, 0)

\* the command loop's run of 5 slices was interrupted in the delay after the second
C12_Witness ==
    /\ caller = "cli" /\ cmd = "twap" /\ args.intervals = 5 /\ pc = "done"
    /\ InterruptInDelay > 0 /\ Len(CreateCalls) = 2 /\ Cardinality(Sleeps(log)) = 2

\* C13: place_twap_order and place_oco_order never roll back: in every run they
\* make no cancelOrder call, and every createOrder call they make is for the
\* requested symbol and the requested side, so no order already placed is
\* undone or offset.
C13_NoRollback ==
    op \in {"twap", "oco"} =>
        /\ NumCalls(log, "cancelOrder") = 0
        /\ \A j \in RemoteCalls(log) : log[j].api \in {"createOrder", "symbolTicker"}
        /\ \A j \in 1..Len(CreateCalls) :
              /\ CreateCalls[j].req.side = UpperStr(args.side)
              /\ CreateCalls[j].req.symbol = args.symbol

\* the second of 3 slices failed after the first was accepted: the run has
\* returned and the accepted order was left as it is
C13_Witness ==
    /\ TwapReturnedList /\ args.intervals = 3 /\ FirstFailure(2)
    /\ Len(ret.items) = 1 /\ NumCalls(log, "cancelOrder") = 0

----------------------------------------------------------------------------
(* No retries; the two legs of place_oco_order *)

\* the remote calls made by the dispatcher operation (the handlers' ticker
\* lookup is not one of them)
DispatcherCalls(api) == NumCalls(log, api)

\* no remote call follows a remote call of the dispatcher that failed
NoCallAfterFailure ==
    \A j \in 1..Len(log) :
        (log[j].ev = "return" /\ log[j].op # "ticker" /\ ~Truthy(log[j].result)) =>
            \A m \in RemoteCalls(log) : m < j

\* C14: nothing is retried. place_market_order, place_limit_order and
\* place_stop_limit_order make at most one createOrder call, exactly one when
\* their quantity and prices are positive numbers; get_order_status and
\* cancel_order make exactly one getOrder / cancelOrder call; place_oco_order
\* makes at most 2 createOrder calls and place_twap_order at most `intervals`;
\* no call follows a failed call.
C14_NothingRetried ==
    /\ op \in {"market", "limit", "stop_limit"} =>
          /\ DispatcherCalls("createOrder") <= 1
          /\ ~InvalidSingleArgs => DispatcherCalls("createOrder") = 1
          /\ DispatcherCalls("getOrder") = 0 /\ DispatcherCalls("cancelOrder") = 0
    /\ op = "status" =>
          /\ DispatcherCalls("getOrder") = 1
          /\ DispatcherCalls("createOrder") = 0 /\ DispatcherCalls("cancelOrder") = 0
    /\ op = "cancel" =>
          /\ DispatcherCalls("cancelOrder") = 1
          /\ DispatcherCalls("createOrder") = 0 /\ DispatcherCalls("getOrder") = 0
    /\ op = "oco" => DispatcherCalls("createOrder") <= 2
    /\ op = "twap" =>
          DispatcherCalls("createOrder") <= IF args.intervals > 0 THEN args.intervals ELSE 0
    /\ op # "none" => NoCallAfterFailure

\* place_limit_order was rejected by the exchange and returned None after its one call
C14_Witness ==
    /\ op = "limit" /\ pc = "done" /\ ret = None /\ ~InvalidSingleArgs
    /\ DispatcherCalls("createOrder") = 1
    /\ log[Len(log)] = ReturnEv("limit", "api_error", None)

\* place_oco_order was called with positive numbers and is over, both legs accepted
OcoBothLegsPlaced ==
    /\ op = "oco" /\ pc = "done" /\ raised = "none"
    /\ IsPositiveNumber(args.quantity) /\ IsPositiveNumber(args.price)
    /\ IsPositiveNumber(args.stop_price) /\ IsPositiveNumber(args.stop_limit_price)
    /\ \E j \in 1..Len(log) :
          log[j].ev = "return" /\ log[j].op = "limit" /\ Truthy(log[j].result)
    /\ \E j \in 1..Len(log) :
          log[j].ev = "return" /\ log[j].op = "stop_limit" /\ Truthy(log[j].result)

\* what place_stop_limit_order returned for the stop-limit leg
StopLegResult ==
    LET j == CHOOSE m \in 1..Len(log) : log[m].ev = "return" /\ log[m].op = "stop_limit"
    IN log[j].result

\* x is half of y
IsHalfOf(x, y) == x.k = "float" /\ y.k = "float" /\ 2 * x.n * y.d = y.n * x.d

\* C15: place_oco_order with positive quantity and prices and both legs
\* accepted makes exactly two createOrder calls, the LIMIT leg at the limit
\* price and then the stop-limit leg (type STOP, stop price and stop-limit
\* price), each for half the quantity and for the requested symbol and side,
\* and returns a grouping that holds the results of both legs.
C15_OcoTwoLegs ==
    OcoBothLegsPlaced =>
        /\ Len(CreateCalls) = 2
        /\ CreateCalls[1].req.type = "LIMIT" /\ CreateCalls[2].req.type = "STOP"
        /\ NumEq(CreateCalls[1].req.price, args.price)
        /\ NumEq(CreateCalls[2].req.stopPrice, args.stop_price)
        /\ NumEq(CreateCalls[2].req.price, args.stop_limit_price)
        /\ \A j \in 1..2 :
              /\ IsHalfOf(CreateCalls[j].req.quantity, args.quantity)
              /\ CreateCalls[j].req.symbol = args.symbol
              /\ CreateCalls[j].req.side = UpperStr(args.side)
        /\ ret.t = "oco" /\ ret.oco_type = "MANUAL_OCO"
        /\ ret.limit_order = LimitLegResult /\ ret.limit_order.type = "LIMIT"
        /\ ret.stop_order = StopLegResult /\ ret.stop_order.type = "STOP"
        /\ ret.limit_order.orderId # ret.stop_order.orderId

\* an OCO for quantity 3 placed a limit leg and a stop-limit leg of 3/2 each
C15_Witness ==
    /\ OcoBothLegsPlaced /\ args.quantity = Num(3) /\ args.side = "sell"
    /\ Len(CreateCalls) = 2 /\ CreateCalls[2].req.quantity = Div(Num(3), 2)
    /\ ret.t = "oco"

----------------------------------------------------------------------------
(* The validators of utils.py, applied to every input of a bounded set *)

SymbolChars == {"b", "T", " "}
SymbolStrings == UNION {[1..n -> SymbolChars] : n \in 0..MaxSymbolLen}

\* a validator was called with args and returned (r.ok) or raised ValueError
Validated(opname, a, r, valtype, again) ==
    [Idle EXCEPT !.pc = "done", !.op = opname, !.args = a, !.i = again,
                 !.ret = IF r.ok THEN [t |-> valtype, v |-> r.v] ELSE Pending,
                 !.raised = IF r.ok THEN "none" ELSE "ValueError"]

ValidateSymbolCall ==
    /\ pc = "idle"
    /\ \E s \in SymbolStrings :
         Become(Validated("validate_symbol", [NoArgs EXCEPT !.symbol = s],
                          validate_symbol(s), "symbol", 0))

\* the symbol a call returned is validated again
ValidateSymbolAgain ==
    /\ pc = "done" /\ op = "validate_symbol" /\ raised = "none" /\ i = 0
    /\ Become(Validated("validate_symbol", [NoArgs EXCEPT !.symbol = ret.v],
                        validate_symbol(ret.v), "symbol", 1))

ValidateQuantityCall ==
    /\ pc = "idle"
    /\ \E q \in Quantities :
         Become(Validated("validate_quantity", [NoArgs EXCEPT !.quantity = q],
                          validate_quantity(q), "number", 0))

ValidatePriceCall ==
    /\ pc = "idle"
    /\ \E p \in Prices \cup {NoVal} :
         Become(Validated("validate_price", [NoArgs EXCEPT !.price = p],
                          validate_price(p), "number", 0))

ValidatorNext ==
    \/ ValidateSymbolCall \/ ValidateSymbolAgain
    \/ ValidateQuantityCall \/ ValidatePriceCall \/ NextCommand

ValidatorSpec == Init /\ [][ValidatorNext]_vars

\* validate_symbol was called with args.symbol and is over
SymbolValidated == op = "validate_symbol" /\ pc = "done"

\* C16 as claimed: validate_symbol fails for the empty string and for every
\* string shorter than 6 characters after upper-casing, succeeds for every
\* other string, returning it upper-cased, and a returned symbol validates to
\* itself.
C16_SymbolUppercasedOrRejected ==
    SymbolValidated =>
        /\ (args.symbol = <<>> \/ Len(Upper(args.symbol)) < 6) => raised = "ValueError"
        /\ ~(args.symbol = <<>> \/ Len(Upper(args.symbol)) < 6) =>
              (raised = "none" /\ ret.v = Upper(args.symbol))
        /\ i = 1 => (raised = "none" /\ ret.v = args.symbol)

\* s[a..b] is s without its leading and trailing blanks
IsTrimOf(s, a, b) ==
    /\ a <= b /\ s[a] # " " /\ s[b] # " "
    /\ \A j \in 1..Len(s) : (j < a \/ j > b) => s[j] = " "

\* C16: validate_symbol fails for every string that is empty or has fewer than
\* 6 characters once upper-cased and stripped of leading and trailing blanks,
\* and for every other string succeeds, returning exactly that upper-cased,
\* stripped string; a returned symbol validates to itself.
C16_SymbolNormalisedOrRejected ==
    SymbolValidated =>
        LET s == args.symbol
            Spans == {ab \in (1..Len(s)) \X (1..Len(s)) : IsTrimOf(s, ab[1], ab[2])}
            Long == {ab \in Spans : ab[2] - ab[1] + 1 >= 6}
        IN /\ raised = "ValueError" <=> Long = {}
           /\ raised = "none" <=> Long # {}
           /\ \A ab \in Long :
                 ret.v = [j \in 1..(ab[2] - ab[1] + 1) |-> UpperChar(s[ab[1] + j - 1])]
           /\ i = 1 => (raised = "none" /\ ret.v = args.symbol)

\* a 7-character string with a leading blank was accepted as its 6 other
\* characters, and that result was accepted again unchanged
C16_Witness ==
    /\ SymbolValidated /\ i = 1 /\ raised = "none"
    /\ ret.v = <<"B", "T", "B", "T", "B", "T">> /\ args.symbol = ret.v

\* validate_quantity or validate_price was called and is over; its argument
NumberValidated == op \in {"validate_quantity", "validate_price"} /\ pc = "done"
ValidatedNumber == IF op = "validate_quantity" THEN args.quantity ELSE args.price

\* C17: validate_quantity and validate_price raise ValueError for every value
\* that is not a positive number (a number <= 0, or no number at all) and
\* return every positive number unchanged.
C17_OnlyPositiveNumbersPass ==
    NumberValidated =>
        /\ IsPositiveNumber(ValidatedNumber) => (raised = "none" /\ ret.v = ValidatedNumber)
        /\ ~IsPositiveNumber(ValidatedNumber) => raised = "ValueError"

----------------------------------------------------------------------------
(* Confirmation in the command loop *)

\* the calls in the log that change state at the exchange
StateChangingCalls == CallsOf(log, "createOrder") \cup CallsOf(log, "cancelOrder")

\* C18: in the command loop a createOrder or cancelOrder call is made only
\* after the user answered yes to the confirmation of the command in progress;
\* after the answer no the command ends with no such call; an answer that is
\* neither is followed by the question again, with no remote call in between.
C18_ConfirmationGatesOrders ==
    caller = "cli" =>
        /\ \A j \in StateChangingCalls :
              \E m \in 1..(j - 1) : log[m] = AnswerEv("yes")
        /\ pc = "confirm" => StateChangingCalls = {}
        /\ \A m \in 1..Len(log) :
              /\ log[m] = AnswerEv("no") =>
                    /\ StateChangingCalls = {} /\ pc = "done" /\ op = "none"
                    /\ \A n \in 1..Len(log) : log[n] # AnswerEv("yes")
              /\ log[m] = AnswerEv("other") =>
                    /\ StateChangingCalls \cap 1..m = {}
                    /\ IF m = Len(log) THEN pc = "confirm"
                       ELSE log[m + 1].ev \in {"answer", "interrupt"}

\* the cancel command was answered with something else, asked again, answered
\* yes, and only then called cancelOrder
C18_Witness ==
    /\ caller = "cli" /\ cmd = "cancel" /\ reprompts = 1 /\ Len(log) >= 3
    /\ log[1] = AnswerEv("other") /\ log[2] = AnswerEv("yes")
    /\ IsCall(log[3], "cancelOrder")

----------------------------------------------------------------------------
(* Validation before the legs of place_oco_order *)

\* place_oco_order was called with a quantity or a price that is not a positive number
InvalidOcoArgs ==
    /\ op = "oco"
    /\ \/ ~IsPositiveNumber(args.quantity) \/ ~IsPositiveNumber(args.price)
       \/ ~IsPositiveNumber(args.stop_price) \/ ~IsPositiveNumber(args.stop_limit_price)

\* C19: place_oco_order checks quantity, limit price, stop price and stop-limit
\* price before it places either leg: when any of them is not a positive
\* number it makes no createOrder call and returns None.
C19_OcoValidatesBeforeEitherLeg ==
    InvalidOcoArgs => (Len(CreateCalls) = 0 /\ pc = "done" /\ ret = None)

----------------------------------------------------------------------------
(* Orders the remote accepted *)

\* the remote created the order: createOrder returned a response
AcceptedOutcomes == {"ok", "ok_postfail"}

\* every quantity and price the operation was given is a positive number
PositiveArgs ==
    \A x \in {args.quantity, args.price, args.stop_price, args.stop_limit_price} :
        x = NoVal \/ IsPositiveNumber(x)

IsLeafReturn(e) == e.ev = "return" /\ e.op \in {"market", "limit", "stop_limit"}

\* C20: place_market_order, place_limit_order and place_stop_limit_order return
\* None exactly when the remote did not accept an order: whenever createOrder
\* returned, the operation returns that order, whatever happens in the logging
\* and formatting after the call. So place_twap_order goes on after every
\* accepted sub-order, and place_oco_order attempts its stop-limit leg after
\* every accepted limit leg.
C20_NoneIffNotAccepted ==
  PositiveArgs =>
    /\ \A j \in 1..Len(log) :
          IsLeafReturn(log[j]) =>
              (log[j].result = None <=> log[j].outcome \notin AcceptedOutcomes)
    /\ (op \in {"market", "limit", "stop_limit"} /\ pc = "done" /\ raised = "none"
            /\ Len(CreateCalls) = 1) =>
          (ret = None <=> log[Len(log)].outcome \notin AcceptedOutcomes)
    /\ (op = "twap" /\ pc = "done" /\ raised = "none" /\ Len(CreateCalls) > 0
            /\ Len(CreateCalls) < args.intervals) =>
          SubOrderReturns[Len(SubOrderReturns)].outcome \notin AcceptedOutcomes
    /\ (op = "oco" /\ pc = "done" /\ raised = "none" /\ Len(CreateCalls) = 1) =>
          \A j \in 1..Len(log) :
              IsLeafReturn(log[j]) => log[j].outcome \notin AcceptedOutcomes

----------------------------------------------------------------------------
(* The command loop *)

\* the steps that end a wait of the program: a remote call or a sleep returns,
\* the user answers the confirmation, run_cli goes back to its prompt
Unblocked ==
    \/ MarketReturn \/ LimitReturn \/ StopLimitReturn \/ StatusReturn \/ CancelReturn
    \/ OcoLimitLegReturn \/ OcoStopLegReturn \/ TwapOrderReturn \/ TwapSleepReturn
    \/ GetAccountBalanceReturn \/ GetAccountBalanceDebugReturn \/ GetCurrentPriceReturn
    \/ AnswerYes \/ AnswerNo \/ AnswerOther \/ NextCommand

\* whatever the program blocks in returns
FairCliSpec == Spec /\ WF_vars(Unblocked)

\* run_cli is inside a command
InCommand == caller = "cli" /\ pc \notin {"idle", "exited"}

\* the loop is over only after exit/quit, with no remote call made for it, and
\* no exception ends the program
LoopLeftOnlyByExit ==
    /\ pc # "stopped"
    /\ pc = "exited" => (cmd = "exit" /\ RemoteCalls(log) = {} /\ raised = "none")

\* C21: run_cli stops prompting only on exit/quit, which it does from the
\* prompt and without a remote call; every other command, whether unknown,
\* ended by an error in its handler, by a failed remote call or by a
\* KeyboardInterrupt, ends with the loop back at the prompt.
C21_LoopLeftOnlyByExit ==
    /\ [](LoopLeftOnlyByExit)
    /\ [][(pc' = "exited" => pc = "idle") /\ (pc = "done" => pc' = "idle")]_vars
    /\ (InCommand ~> pc = "idle")

\* the balance command failed in both of its futures_account calls and returned to run_cli
C21_Witness ==
    /\ caller = "cli" /\ cmd = "balance" /\ pc = "done" /\ Len(log) = 6
    /\ log[2].outcome = "api_error" /\ log[5].outcome = "error"
    /\ log[6] = MsgEv("error", "debug_error", 0, 0)

----------------------------------------------------------------------------
(* What place_twap_order returns *)

\* place_twap_order raised ValueError before its loop: float(total_quantity)
\* failed or gave a value <= 0, or intervals or duration is <= 0
TwapValidationFails ==
    \/ args.quantity.k \in {"text", "none"}
    \/ args.quantity.k = "float" /\ args.quantity.n <= 0
    \/ args.intervals <= 0 \/ args.duration <= 0

\* C22: place_twap_order returns None only when its input validation fails (no
\* step of the model raises an unexpected error inside the loop); when a
\* sub-order fails it returns a list, and when the very first sub-order fails
\* that list is empty, after exactly one createOrder call and no delay.
C22_TwapNoneOnlyOnInvalidInput ==
    (op = "twap" /\ pc = "done" /\ raised = "none") =>
        /\ ret = None <=> TwapValidationFails
        /\ ret = None => (Len(CreateCalls) = 0 /\ Sleeps(log) = {})
        /\ (\E k \in 1..Len(SubOrderReturns) : FirstFailure(k)) => ret.t = "list"
        /\ FirstFailure(1) =>
              /\ ret = [t |-> "list", items |-> <<>>]
              /\ Len(CreateCalls) = 1 /\ Sleeps(log) = {}

\* the first of 3 sub-orders was rejected by the exchange: an empty list came back
C22_Witness ==
    /\ op = "twap" /\ pc = "done" /\ args.intervals = 3 /\ FirstFailure(1)
    /\ SubOrderReturns[1].outcome = "api_error"
    /\ ret = [t |-> "list", items |-> <<>>] /\ Len(CreateCalls) = 1

====
